---------------------------- MODULE Spec2Model ----------------------------
(***************************************************************************)
(* Model of the evaluation data pipeline of kg-agent/eval-framework:       *)
(*   scripts/prepare_nq_data.py  (prepare_natural_questions, the Sampler)  *)
(*   scripts/ingest_nq_data.py   (ingest_chunks, the Batch Ingestor)       *)
(*                                                                         *)
(* Python values are encoded so that TLC never compares values of         *)
(* different kinds: None is the empty tuple, an int k that may also be    *)
(* None is the 1-tuple <<k>>, and a text cell is a 2-tuple.                *)
(***************************************************************************)
EXTENDS Integers, Sequences, FiniteSets, TLC

\* ------------------------------------------------------------------ bounds
\* Largest number of data rows of an input corpus.
MaxRows == 3
\* Largest number of chunks of a chunk document (small documents).
MaxChunks == 3
\* Extra chunks beyond one progress period in the large documents.
MaxExtra == 1
\* Largest number of failing chunks in a large document.
MaxFailures == 1

\* ------------------------------------------------------- program constants
\* ingest_nq_data.py line 40: a progress line every 100 chunks.
ProgressEvery == 100
\* prepare_nq_data.py line 40: minimum width of the chunk number.
IdWidth == 6

None == <<>>
Some(k) == <<k>>
IsNone(v) == v = None
Val(v) == v[1]

\* ********************************************************************** \*
\*                      prepare_nq_data.py (Sampler)                      *
\* ********************************************************************** \*

\* Column names the code reads, in the order of the header line.
Columns == <<"question", "long_answers", "short_answers">>
ColumnSet == {Columns[c] : c \in 1..Len(Columns)}

\* Headers of the input corpora: complete, one column missing, empty file.
Headers == {ColumnSet} \cup {ColumnSet \ {c} : c \in ColumnSet} \cup {{}}

\* Kinds of data rows: two complete rows with different texts, and a short
\* row holding a value for the first header column only.
RowKinds == {"a", "b", "short"}

\* Seeds given to the run; 42 is the default of the code.
Seeds == {1, 42}
\* States the process-wide generator may be in when a run starts.
InitialRngStates == {0, 5}

\* Values of sample_size given on the command line or in a direct call.
SizeArgs == (-1)..(MaxRows + 1)

VARIABLES
    input_csv,        \* the input file: [header, rows]
    argv,             \* --sample-size of a command-line run, None for a direct call
    sample_size,      \* parameter sample_size (None, or Some(k))
    random_seed,      \* parameter random_seed
    ppc,              \* position of the Sampler run
    all_rows,         \* local all_rows: sequence of row dictionaries
    selected_indices, \* local selected_indices
    selected_rows,    \* local selected_rows
    out_chunks,       \* local chunks of prepare_natural_questions
    output_json,      \* the output file: None until written, else Some(chunks)
    perr,             \* exception that ended the run, "" if none
    rng,              \* state of the process-wide random generator
    run,              \* 1 for the first run, 2 for the repeated run
    first             \* outcome of the first run

pvars == <<input_csv, argv, sample_size, random_seed, ppc, all_rows,
           selected_indices, selected_rows, out_chunks, output_json, perr,
           rng, run, first>>

VARIABLES
    json_file,        \* the chunk document file: None if it cannot be loaded, else Some(chunks)
    chunks,           \* local chunks of ingest_chunks
    total,            \* local total
    i,                \* loop index i (0-based, as enumerate gives it)
    ipc,              \* position of the Ingestor run
    tmp,              \* name of the open NamedTemporaryFile, None when closed
    tmp_path,         \* local tmp_path
    customMetadata,   \* local customMetadata
    result,           \* returncode of the last subprocess.run that returned, None before
    fs,               \* temporary files that exist on the filesystem
    created,          \* number of temporary files created so far (names are fresh)
    invocations,      \* the external commands that ran, in order
    log,              \* the lines printed, in order
    exc               \* the exception being propagated, "" if none

ivars == <<json_file, chunks, total, i, ipc, tmp, tmp_path, customMetadata,
           result, fs, created, invocations, log, exc>>

vars == <<pvars, ivars>>

\* ------------------------------------------------------------ csv reading
RECURSIVE SeqsUpTo(_, _)
SeqsUpTo(S, n) ==
    IF n = 0 THEN {<<>>}
    ELSE LET shorter == SeqsUpTo(S, n - 1)
         IN  shorter \cup {Append(s, x) : s \in {t \in shorter : Len(t) = n - 1}, x \in S}

\* The first column of Columns that the header holds.
FirstColumn(header) ==
    Columns[CHOOSE c \in 1..Len(Columns) :
                /\ Columns[c] \in header
                /\ \A d \in 1..(c - 1) : Columns[d] \notin header]

\* csv.DictReader: one dictionary per data row, keyed by the header; the
\* fields a short row lacks are filled with restval = None.
DictRow(header, kind) ==
    [c \in header |->
        IF kind = "short" /\ c # FirstColumn(header) THEN None ELSE <<kind, c>>]

DictReader(file) ==
    [p \in 1..Len(file.rows) |-> DictRow(file.header, file.rows[p])]

\* ------------------------------------------------------ random generator
\* Stand-in for the Mersenne Twister: a full-period linear congruential
\* generator on 16 states. random.seed(s) sets the state from s alone.
RngSeed(s) == s % 16
RngNext(s) == (5 * s + 3) % 16

\* random.sample(range(n), k), pool branch of CPython: k draws without
\* replacement, each draw j = randbelow(n - i) moving the last pool element
\* into the hole (d counts the draws made). Returns the draws in drawing
\* order and the new state.
RECURSIVE SamplePool(_, _, _, _, _, _)
SamplePool(pool, n, k, d, s, drawn) ==
    IF d = k THEN [result |-> drawn, rng |-> s]
    ELSE LET s1 == RngNext(s)
             j  == s1 % (n - d)
         IN  SamplePool([pool EXCEPT ![j + 1] = pool[n - d]], n, k, d + 1, s1,
                        Append(drawn, pool[j + 1]))

RandomSample(s, n, k) == SamplePool([p \in 1..n |-> p - 1], n, k, 0, s, <<>>)

\* list.sort() on a list of ints.
RECURSIVE Insert(_, _)
Insert(sorted, x) ==
    IF sorted = <<>> THEN <<x>>
    ELSE IF x <= Head(sorted) THEN <<x>> \o sorted
    ELSE <<Head(sorted)>> \o Insert(Tail(sorted), x)

RECURSIVE SortList(_)
SortList(s) == IF s = <<>> THEN <<>> ELSE Insert(SortList(Tail(s)), Head(s))

\* --------------------------------------------------------------- chunk ids
RECURSIVE Digits(_)
Digits(n) == IF n < 10 THEN <<n>> ELSE Append(Digits(n \div 10), n % 10)

RECURSIVE ZeroPad(_, _)
ZeroPad(d, w) == IF Len(d) >= w THEN d ELSE ZeroPad(<<0>> \o d, w)

\* Variant: the chunk is numbered by the index of its row in the corpus.
ChunkNumberOfRow(p, indices) == IF indices = <<>> THEN p - 1 ELSE indices[p]

\* The number enumerate() gives the row at 1-based position p.
ChunkNumber(p, indices) == p - 1

\* f"nq_{i:06d}"
ChunkId(n) == [prefix |-> "nq_", digits |-> ZeroPad(Digits(n), IdWidth)]

\* The dictionary built for one row (lines 39-47).
MakeChunk(n, row) ==
    [chunk_id    |-> ChunkId(n),
     document_id |-> "natural_questions",
     content     |-> row["long_answers"],
     metadata    |-> [question     |-> row["question"],
                      short_answer |-> row["short_answers"]]]

\* ------------------------------------------------------------------ steps
PInit ==
    /\ input_csv \in [header : Headers, rows : SeqsUpTo(RowKinds, MaxRows)]
    /\ input_csv.header = {} => input_csv.rows = <<>>
    /\ random_seed \in Seeds
    /\ rng \in InitialRngStates
    /\ \/ /\ ppc = "main"
          /\ argv \in {Some(k) : k \in SizeArgs}
          /\ sample_size = None
       \/ /\ ppc = "read"
          /\ argv = None
          /\ sample_size \in {None} \cup {Some(k) : k \in SizeArgs}
    /\ all_rows = <<>>
    /\ selected_indices = <<>>
    /\ selected_rows = <<>>
    /\ out_chunks = <<>>
    /\ output_json = None
    /\ perr = ""
    /\ run = 1
    /\ first = None

\* __main__, line 85: 0 on the command line means None.
Main ==
    /\ ppc = "main"
    /\ sample_size' = IF Val(argv) = 0 THEN None ELSE argv
    /\ ppc' = "read"
    /\ UNCHANGED <<input_csv, argv, random_seed, all_rows, selected_indices,
                   selected_rows, out_chunks, output_json, perr, rng, run, first>>
    /\ UNCHANGED ivars

\* Lines 17-23.
ReadCsv ==
    /\ ppc = "read"
    /\ all_rows' = DictReader(input_csv)
    /\ ppc' = "sample"
    /\ UNCHANGED <<input_csv, argv, sample_size, random_seed, selected_indices,
                   selected_rows, out_chunks, output_json, perr, rng, run, first>>
    /\ UNCHANGED ivars

\* Variant: the size is not compared with the number of rows.
WantsSampleAlways(size, total_available) ==
    /\ ~IsNone(size)
    /\ Val(size) # 0

\* `sample_size and sample_size < total_available` (line 26).
WantsSample(size, total_available) ==
    /\ ~IsNone(size)
    /\ Val(size) # 0
    /\ Val(size) < total_available

\* Variant: the generator is not seeded.
UnseededRng(state, seed) == state

\* random.seed(random_seed), line 27.
SeededRng(state, seed) == RngSeed(seed)

\* Variant: the drawn indices are used in drawing order.
SortIndicesSkipped(indices) == indices

\* selected_indices.sort(), line 29.
SortIndices(indices) == SortList(indices)

\* Lines 26-34.
SelectRows ==
    /\ ppc = "sample"
    /\ LET total_available == Len(all_rows)
       IN  IF WantsSample(sample_size, total_available)
           THEN LET seeded == SeededRng(rng, random_seed)
                    k == Val(sample_size)
                IN  IF k < 0 \/ k > total_available
                    THEN \* random.sample raises ValueError (not 0 <= k <= n)
                         /\ rng' = seeded
                         /\ perr' = "ValueError"
                         /\ ppc' = "failed"
                         /\ UNCHANGED <<selected_indices, selected_rows>>
                    ELSE LET drawn == RandomSample(seeded, total_available, k)
                             indices == SortIndices(drawn.result)
                         IN  /\ rng' = drawn.rng
                             /\ selected_indices' = indices
                             /\ selected_rows' =
                                    [p \in 1..Len(indices) |-> all_rows[indices[p] + 1]]
                             /\ ppc' = "convert"
                             /\ perr' = perr
           ELSE /\ selected_rows' = all_rows
                /\ ppc' = "convert"
                /\ UNCHANGED <<selected_indices, perr, rng>>
    /\ UNCHANGED <<input_csv, argv, sample_size, random_seed, all_rows,
                   out_chunks, output_json, run, first>>
    /\ UNCHANGED ivars

\* Variant: a missing column reads as None (row.get) instead of raising.
ConvertRowsLenient ==
    /\ ppc = "convert"
    /\ out_chunks' =
           [p \in 1..Len(selected_rows) |->
               LET row == selected_rows[p]
                   get(c) == IF c \in DOMAIN row THEN row[c] ELSE None
               IN  [chunk_id    |-> ChunkId(ChunkNumber(p, selected_indices)),
                    document_id |-> "natural_questions",
                    content     |-> get("long_answers"),
                    metadata    |-> [question     |-> get("question"),
                                     short_answer |-> get("short_answers")]]]
    /\ ppc' = "save"
    /\ UNCHANGED <<input_csv, argv, sample_size, random_seed, all_rows,
                   selected_indices, selected_rows, output_json, perr, rng, run, first>>
    /\ UNCHANGED ivars

\* Lines 37-47: the first row lacking a column raises KeyError.
ConvertRows ==
    /\ ppc = "convert"
    /\ IF \E p \in 1..Len(selected_rows) : ~(ColumnSet \subseteq DOMAIN selected_rows[p])
       THEN /\ perr' = "KeyError"
            /\ ppc' = "failed"
            /\ UNCHANGED out_chunks
       ELSE /\ out_chunks' =
                [p \in 1..Len(selected_rows) |->
                    MakeChunk(ChunkNumber(p, selected_indices), selected_rows[p])]
            /\ ppc' = "save"
            /\ UNCHANGED perr
    /\ UNCHANGED <<input_csv, argv, sample_size, random_seed, all_rows,
                   selected_indices, selected_rows, output_json, rng, run, first>>
    /\ UNCHANGED ivars

\* Lines 50-54.
SaveOutput ==
    /\ ppc = "save"
    /\ output_json' = Some(out_chunks)
    /\ ppc' = "done"
    /\ UNCHANGED <<input_csv, argv, sample_size, random_seed, all_rows,
                   selected_indices, selected_rows, out_chunks, perr, rng, run, first>>
    /\ UNCHANGED ivars

\* A second, independent run on the same input, sample size and seed: in the
\* same process (the generator keeps its state) or in a new one.
RunAgain ==
    /\ ppc \in {"done", "failed"}
    /\ run = 1
    /\ first' = Some([perr |-> perr, output |-> output_json, indices |-> selected_indices])
    /\ run' = 2
    /\ rng' \in {rng} \cup InitialRngStates
    /\ ppc' = IF IsNone(argv) THEN "read" ELSE "main"
    /\ sample_size' = IF IsNone(argv) THEN sample_size ELSE None
    /\ all_rows' = <<>>
    /\ selected_indices' = <<>>
    /\ selected_rows' = <<>>
    /\ out_chunks' = <<>>
    /\ output_json' = None
    /\ perr' = ""
    /\ UNCHANGED <<input_csv, argv, random_seed>>
    /\ UNCHANGED ivars

PNext == Main \/ ReadCsv \/ SelectRows \/ ConvertRows \/ SaveOutput \/ RunAgain

\* ********************************************************************** \*
\*                      ingest_nq_data.py (Batch Ingestor)                *
\* ********************************************************************** \*

\* Exit statuses of the external command: zero, and one non-zero status.
ExitCodes == {0, 1}

\* Shapes of a chunk of the document: as the Sampler writes it from a
\* complete row ("ok"), as the Sampler writes it from a short row (content
\* null), and chunks of a hand-made document lacking a key.
ChunkShapes == {"ok", "null_content", "no_metadata", "no_chunk_id"}

\* The chunk at 1-based position p of a document, of the given shape.
ShapedChunk(p, shape) ==
    LET full == [chunk_id    |-> ChunkId(p - 1),
                 document_id |-> "natural_questions",
                 content     |-> IF shape = "null_content" THEN None
                                 ELSE <<"long_answers", p>>,
                 metadata    |-> [question     |-> <<"question", p>>,
                                  short_answer |-> IF shape = "null_content" THEN None
                                                   ELSE <<"short_answers", p>>]]
    IN  CASE shape = "no_metadata" -> [k \in DOMAIN full \ {"metadata"} |-> full[k]]
          [] shape = "no_chunk_id" -> [k \in DOMAIN full \ {"chunk_id"} |-> full[k]]
          [] OTHER -> full

Document(shapes) == [p \in 1..Len(shapes) |-> ShapedChunk(p, shapes[p])]

WellFormed(n) == Document([p \in 1..n |-> "ok"])

\* The lines ingest_chunks prints.
ProgressLine(n, tot) == [kind |-> "progress", n |-> Some(n), total |-> Some(tot), chunk_id |-> None]
ErrorLine(id) == [kind |-> "error", n |-> None, total |-> None, chunk_id |-> Some(id)]
CompleteLine(tot) == [kind |-> "complete", n |-> None, total |-> Some(tot), chunk_id |-> None]

\* chunk of the current iteration
chunk == chunks[i + 1]

IIdle ==
    /\ chunks = <<>>
    /\ total = 0
    /\ i = 0
    /\ tmp = None
    /\ tmp_path = None
    /\ customMetadata = None
    /\ result = None
    /\ fs = {}
    /\ created = 0
    /\ invocations = <<>>
    /\ log = <<>>
    /\ exc = ""

\* Any document of at most MaxChunks chunks, or a file that cannot be loaded.
IInit ==
    /\ json_file \in {None} \cup
                     {Some(Document(s)) : s \in SeqsUpTo(ChunkShapes, MaxChunks)}
    /\ ipc = "open"
    /\ IIdle

\* Lines 13-16.
LoadDocument ==
    /\ ipc = "open"
    /\ IF IsNone(json_file)
       THEN /\ exc' = "load"
            /\ ipc' = "aborted"
            /\ UNCHANGED <<chunks, total>>
       ELSE /\ chunks' = Val(json_file)
            /\ total' = Len(Val(json_file))
            /\ ipc' = "for"
            /\ UNCHANGED exc
    /\ UNCHANGED <<json_file, i, tmp, tmp_path, customMetadata, result, fs,
                   created, invocations, log>>
    /\ UNCHANGED pvars

\* Line 18: the loop takes the next chunk.
NextChunk ==
    /\ ipc = "for"
    /\ i < total
    /\ ipc' = "create"
    /\ UNCHANGED <<json_file, chunks, total, i, tmp, tmp_path, customMetadata,
                   result, fs, created, invocations, log, exc>>
    /\ UNCHANGED pvars

\* Line 49: the loop is over.
Complete ==
    /\ ipc = "for"
    /\ i = total
    /\ log' = Append(log, CompleteLine(total))
    /\ ipc' = "done"
    /\ UNCHANGED <<json_file, chunks, total, i, tmp, tmp_path, customMetadata,
                   result, fs, created, invocations, exc>>
    /\ UNCHANGED pvars

\* Line 20: NamedTemporaryFile(delete=False) creates a file of a fresh name.
CreateTmp ==
    /\ ipc = "create"
    /\ created' = created + 1
    /\ tmp' = Some(created + 1)
    /\ fs' = fs \cup {created + 1}
    /\ ipc' = "write"
    /\ UNCHANGED <<json_file, chunks, total, i, tmp_path, customMetadata, result,
                   invocations, log, exc>>
    /\ UNCHANGED pvars

\* Line 20: the temporary file cannot be created (OSError).
CreateTmpFails ==
    /\ ipc = "create"
    /\ exc' = "create"
    /\ ipc' = "aborted"
    /\ UNCHANGED <<json_file, chunks, total, i, tmp, tmp_path, customMetadata,
                   result, fs, created, invocations, log>>
    /\ UNCHANGED pvars

\* tmp.write(chunk['content']) needs the key and a str.
Writable(c) == "content" \in DOMAIN c /\ ~IsNone(c["content"])

\* Lines 21-22: the content is written, the with block closes the file.
WriteTmp ==
    /\ ipc = "write"
    /\ Writable(chunk)
    /\ tmp_path' = tmp
    /\ tmp' = None
    /\ ipc' = "try"
    /\ UNCHANGED <<json_file, chunks, total, i, customMetadata, result, fs,
                   created, invocations, log, exc>>
    /\ UNCHANGED pvars

\* Line 21 raises (KeyError, TypeError): the with block closes the file and
\* the exception leaves ingest_chunks; the try of line 24 was not entered.
WriteTmpRaises ==
    /\ ipc = "write"
    /\ ~Writable(chunk)
    /\ tmp' = None
    /\ exc' = "write"
    /\ ipc' = "aborted"
    /\ UNCHANGED <<json_file, chunks, total, i, tmp_path, customMetadata, result,
                   fs, created, invocations, log>>
    /\ UNCHANGED pvars

\* Lines 25-28; a chunk without metadata raises KeyError inside the try.
BuildMetadata ==
    /\ ipc = "try"
    /\ IF "metadata" \in DOMAIN chunk
       THEN /\ customMetadata' = Some([question    |-> chunk["metadata"].question,
                                       shortAnswer |-> chunk["metadata"].short_answer])
            /\ ipc' = "run"
            /\ UNCHANGED exc
       ELSE /\ exc' = "metadata"
            /\ ipc' = "finally"
            /\ UNCHANGED customMetadata
    /\ UNCHANGED <<json_file, chunks, total, i, tmp, tmp_path, result, fs,
                   created, invocations, log>>
    /\ UNCHANGED pvars

\* Number of commands that returned a non-zero status so far.
Failures == Cardinality({q \in 1..Len(invocations) : invocations[q].returncode # 0})

\* Lines 30-37: the command ran and returned rc.
Returned(rc) ==
    /\ ipc = "run"
    /\ result' = Some(rc)
    /\ invocations' = Append(invocations,
                             [chunk          |-> i,
                              filePath       |-> Val(tmp_path),
                              fileExists     |-> Val(tmp_path) \in fs,
                              chunkSize      |-> "20000",
                              chunkOverlap   |-> "0",
                              customMetadata |-> Val(customMetadata),
                              returncode     |-> rc])
    /\ ipc' = "check"
    /\ UNCHANGED <<json_file, chunks, total, i, tmp, tmp_path, customMetadata,
                   fs, created, log, exc>>
    /\ UNCHANGED pvars

RunReturns == \E rc \in ExitCodes : Returned(rc)

\* The same, with at most MaxFailures failing chunks in a run.
RunReturnsFew == \E rc \in ExitCodes : (rc # 0 => Failures < MaxFailures) /\ Returned(rc)

\* Lines 30-37: subprocess.run itself raises (the command cannot be started).
RunRaises ==
    /\ ipc = "run"
    /\ exc' = "run"
    /\ ipc' = "finally"
    /\ UNCHANGED <<json_file, chunks, total, i, tmp, tmp_path, customMetadata,
                   result, fs, created, invocations, log>>
    /\ UNCHANGED pvars

\* Line 40: whether a progress line is due after the chunk of index idx.
ProgressDue(idx, successes) == (idx + 1) % ProgressEvery = 0

\* Line 41: the count the progress line reports.
ProgressCount(idx, successes) == idx + 1

\* Number of commands that returned zero so far.
Successes == Cardinality({q \in 1..Len(invocations) : invocations[q].returncode = 0})

\* Variant: a non-zero status raises (subprocess.run(..., check=True)).
OnFailureRaises(rc) == "raise"

\* What lines 39-43 do with a returned status: "print" or "raise".
OnFailure(rc) == "print"

\* Lines 39-43.
CheckResult ==
    /\ ipc = "check"
    /\ IF Val(result) = 0
       THEN /\ log' = IF ProgressDue(i, Successes)
                      THEN Append(log, ProgressLine(ProgressCount(i, Successes), total))
                      ELSE log
            /\ UNCHANGED exc
       ELSE IF OnFailure(Val(result)) = "raise"
            THEN exc' = "returncode" /\ UNCHANGED log
            ELSE IF "chunk_id" \in DOMAIN chunk
                 THEN /\ log' = Append(log, ErrorLine(chunk["chunk_id"]))
                      /\ UNCHANGED exc
                 ELSE /\ exc' = "chunk_id"
                      /\ UNCHANGED log
    /\ ipc' = "finally"
    /\ UNCHANGED <<json_file, chunks, total, i, tmp, tmp_path, customMetadata,
                   result, fs, created, invocations>>
    /\ UNCHANGED pvars

\* Variant: the file is deleted only after a zero exit status.
UnlinkedOnSuccess(files, path, rc) == IF rc = Some(0) THEN files \ {path} ELSE files

\* os.unlink(path), line 47: the files left once the finally clause ran
\* after an exit status rc (None when the try raised).
Unlinked(files, path, rc) == files \ {path}

\* Lines 45-47, then the loop goes on or the pending exception leaves.
Unlink ==
    /\ ipc = "finally"
    /\ fs' = Unlinked(fs, Val(tmp_path), IF exc = "" THEN result ELSE None)
    /\ IF exc = ""
       THEN i' = i + 1 /\ ipc' = "for"
       ELSE i' = i /\ ipc' = "aborted"
    /\ UNCHANGED <<json_file, chunks, total, tmp, tmp_path, customMetadata,
                   result, created, invocations, log, exc>>
    /\ UNCHANGED pvars

\* Line 47: os.unlink raises (OSError); the file stays.
UnlinkFails ==
    /\ ipc = "finally"
    /\ exc' = "unlink"
    /\ ipc' = "aborted"
    /\ UNCHANGED <<json_file, chunks, total, i, tmp, tmp_path, customMetadata,
                   result, fs, created, invocations, log>>
    /\ UNCHANGED pvars

\* ------------------------------------------------------ the specifications
\* The Sampler does not run.
PIdle ==
    /\ input_csv = [header |-> {}, rows |-> <<>>]
    /\ argv = None
    /\ sample_size = None
    /\ random_seed = 42
    /\ ppc = "idle"
    /\ all_rows = <<>>
    /\ selected_indices = <<>>
    /\ selected_rows = <<>>
    /\ out_chunks = <<>>
    /\ output_json = None
    /\ perr = ""
    /\ rng = 0
    /\ run = 1
    /\ first = None

\* One run of ingest_chunks on a small document, every step free to raise.
Init == IInit /\ PIdle

Next ==
    \/ LoadDocument \/ NextChunk \/ Complete
    \/ CreateTmp \/ CreateTmpFails
    \/ WriteTmp \/ WriteTmpRaises
    \/ BuildMetadata
    \/ RunReturns \/ RunRaises
    \/ CheckResult
    \/ Unlink \/ UnlinkFails

Spec == Init /\ [][Next]_vars

\* One run of ingest_chunks on a well-formed document where every step but
\* the external command succeeds; the command returns some exit status.
InitExits ==
    /\ json_file \in {Some(WellFormed(n)) : n \in 0..MaxChunks}
    /\ ipc = "open"
    /\ IIdle
    /\ PIdle

NextExits ==
    \/ LoadDocument \/ NextChunk \/ Complete
    \/ CreateTmp \/ WriteTmp \/ BuildMetadata
    \/ RunReturns \/ CheckResult \/ Unlink

\* Every step is a blocking call of one thread: the run goes on while it can.
SpecExits == InitExits /\ [][NextExits]_vars /\ WF_vars(NextExits)

\* One run of ingest_chunks on a well-formed document of at least
\* ProgressEvery chunks, of which at most MaxFailures fail.
InitProgress ==
    /\ json_file \in {Some(WellFormed(n)) : n \in ProgressEvery..(ProgressEvery + MaxExtra)}
    /\ ipc = "open"
    /\ IIdle
    /\ PIdle

NextProgress ==
    \/ LoadDocument \/ NextChunk \/ Complete
    \/ CreateTmp \/ CreateTmpFails
    \/ WriteTmp
    \/ BuildMetadata
    \/ RunReturnsFew \/ RunRaises
    \/ CheckResult
    \/ Unlink \/ UnlinkFails

SpecProgress == InitProgress /\ [][NextProgress]_vars

\* Two runs of prepare_natural_questions on the same input.
InitPrepare == PInit /\ json_file = None /\ ipc = "idle" /\ IIdle

SpecPrepare == InitPrepare /\ [][PNext]_vars

\* ********************************************************************** \*
\*                               Properties                               *
\* ********************************************************************** \*

\* ---------------------------------------------------------------- Sampler
Terminal == ppc \in {"done", "failed"}
TotalRecords == Len(input_csv.rows)
HeaderComplete == ColumnSet \subseteq input_csv.header
Written == ~IsNone(output_json)
Output == Val(output_json)

\* The cell of column c in the data row at 1-based position p of the input.
InputCell(p, c) ==
    IF input_csv.rows[p] = "short" /\ c # FirstColumn(input_csv.header)
    THEN None
    ELSE <<input_csv.rows[p], c>>

\* The chunk at output position q is built from the input row at position p.
BuiltFrom(q, p) ==
    /\ Output[q].content = InputCell(p, "long_answers")
    /\ Output[q].metadata.question = InputCell(p, "question")
    /\ Output[q].metadata.short_answer = InputCell(p, "short_answers")

RECURSIVE DigitsValue(_)
DigitsValue(d) ==
    IF d = <<>> THEN 0
    ELSE 10 * DigitsValue(SubSeq(d, 1, Len(d) - 1)) + d[Len(d)]

\* C4: in every output document that is written, the chunk at 0-based
\* position p has chunk_id "nq_" followed by p zero-padded to 6 digits, so
\* the ids are distinct, contiguous from 0 and increasing in output order.
OrderingInvariant ==
    Written =>
        \A q \in 1..Len(Output) :
            /\ Output[q].chunk_id.prefix = "nq_"
            /\ Len(Output[q].chunk_id.digits) = 6
            /\ \A d \in 1..6 : Output[q].chunk_id.digits[d] \in 0..9
            /\ DigitsValue(Output[q].chunk_id.digits) = q - 1

\* A written document of a sample whose first chunk is not the first row.
OrderingWitness ==
    /\ Written
    /\ Len(Output) >= 2
    /\ selected_indices # <<>>
    /\ selected_indices[1] # 0

FallbackCase == IsNone(sample_size) \/ Val(sample_size) >= TotalRecords

\* C5: when sample_size is None (0 on the command line) or at least the
\* number of records, the run does not fail for the size, and the output
\* holds exactly one chunk per input row, chunk p built from row p.
FallbackProperty ==
    (Terminal /\ FallbackCase) =>
        /\ perr # "ValueError"
        /\ (HeaderComplete \/ TotalRecords = 0) => ppc = "done"
        /\ ppc = "done" =>
              /\ Len(Output) = TotalRecords
              /\ \A q \in 1..Len(Output) : BuiltFrom(q, q)

\* A finished run whose sample_size exceeds the number of rows, on rows that differ.
FallbackWitness ==
    /\ ppc = "done"
    /\ ~IsNone(sample_size)
    /\ Val(sample_size) > TotalRecords
    /\ TotalRecords >= 2
    /\ input_csv.rows[1] # input_csv.rows[2]

SubsetHolds(k) ==
    /\ HeaderComplete => ppc = "done"
    /\ ppc = "done" =>
          /\ Len(Output) = k
          /\ Len(selected_indices) = k
          /\ \A q \in 1..k : selected_indices[q] \in 0..(TotalRecords - 1)
          /\ \A q \in 1..k : BuiltFrom(q, selected_indices[q] + 1)
          /\ \A q \in 1..(k - 1) : selected_indices[q] < selected_indices[q + 1]

\* C6, as stated: for every non-negative k = sample_size < total_records the
\* output holds exactly k chunks, each from a distinct input row, the rows
\* in ascending order of their index.
SubsetPropertyFromZero ==
    (Terminal /\ ~IsNone(sample_size) /\ Val(sample_size) >= 0
              /\ Val(sample_size) < TotalRecords)
        => SubsetHolds(Val(sample_size))

\* C6, amended: for every positive k = sample_size < total_records the
\* output holds exactly k chunks, each from a distinct input row, the rows
\* in ascending order of their index.
SubsetProperty ==
    (Terminal /\ ~IsNone(sample_size) /\ Val(sample_size) >= 1
              /\ Val(sample_size) < TotalRecords)
        => SubsetHolds(Val(sample_size))

\* A finished sample of two rows that were drawn in descending order.
SubsetWitness ==
    /\ ppc = "done"
    /\ sample_size = Some(2)
    /\ TotalRecords = 3
    /\ RandomSample(RngSeed(random_seed), 3, 2).result # selected_indices

\* C7: a second run on the same input, sample size and seed ends as the
\* first did: the same error, or the same document (chunks, order, ids),
\* whatever state the first run left the generator in.
Determinism ==
    (run = 2 /\ Terminal) =>
        /\ perr = Val(first).perr
        /\ output_json = Val(first).output

\* A second run that sampled and wrote its document.
DeterminismWitness ==
    /\ run = 2
    /\ ppc = "done"
    /\ Len(selected_indices) >= 2
    /\ output_json = Val(first).output

\* C8, as stated: a corpus lacking an expected column always makes the run
\* fail, and no document is written, also when it has no data rows.
MissingColumnsAlwaysFail ==
    (Terminal /\ ~HeaderComplete) => (ppc = "failed" /\ ~Written)

NegativeSize == ~IsNone(sample_size) /\ Val(sample_size) < 0

\* C8, amended: a corpus lacking an expected column makes the run fail
\* without a document when it has at least one data row (KeyError, or
\* ValueError for a negative sample_size); with no data rows the run
\* succeeds and writes an empty document, unless sample_size is negative
\* (ValueError).
MissingColumnsFailWithRows ==
    ~HeaderComplete =>
        IF TotalRecords = 0
        THEN Terminal =>
                IF NegativeSize
                THEN ppc = "failed" /\ perr = "ValueError" /\ ~Written
                ELSE ppc = "done" /\ output_json = Some(<<>>)
        ELSE /\ ppc \notin {"save", "done"}
             /\ ~Written
             /\ Terminal =>
                   \/ perr = "KeyError"
                   \/ perr = "ValueError" /\ NegativeSize

\* A run on rows without one of the columns, ended by KeyError.
MissingColumnsWitness ==
    /\ ~HeaderComplete
    /\ TotalRecords >= 1
    /\ ppc = "failed"
    /\ perr = "KeyError"

\* --------------------------------------------------------------- Ingestor
\* The external command returned for the chunk of index j.
ReturnedFor(j) == \E q \in 1..Len(invocations) : invocations[q].chunk = j

\* An error line naming the chunk of index j was printed.
ErrorLoggedFor(j) ==
    /\ j < Len(chunks)
    /\ "chunk_id" \in DOMAIN chunks[j + 1]
    /\ \E q \in 1..Len(log) :
          /\ log[q].kind = "error"
          /\ log[q].chunk_id = Some(chunks[j + 1]["chunk_id"])

\* C1, as stated: once the processing of a chunk has ended, also by an
\* exception that ends the run, no temporary file of the run exists.
CleanupInvariant == ipc \in {"for", "done", "aborted"} => fs = {}

\* The command returned a non-zero status for the chunk of index j.
FailedAt(j) == ipc = "check" /\ i = j /\ Val(result) # 0

\* The run printed its summary last, after attempting every chunk after j.
CompletedAfter(j) ==
    /\ ipc = "done"
    /\ \A m \in (j + 1)..(total - 1) : ReturnedFor(m)
    /\ log # <<>>
    /\ log[Len(log)] = CompleteLine(total)

ChunkHasKeys(c) ==
    /\ Writable(c)
    /\ "metadata" \in DOMAIN c
    /\ "chunk_id" \in DOMAIN c

\* C3, as stated: the run ends abnormally only if the document cannot be
\* loaded or a temporary file cannot be created (or written).
FatalOnlyOnLoadOrCreate ==
    ipc = "aborted" => exc \in {"load", "create", "write"}

\* C3, amended: the run ends abnormally only when a step raises: loading the
\* document, creating or writing the temporary file, reading a key the chunk
\* lacks, starting the external command, or deleting the temporary file. The
\* exit status never ends it: once the command returned for a chunk that has
\* every key, only a failing deletion of its file ends the run.
AbortsOnlyOnException ==
    ipc = "aborted" =>
        /\ exc \in {"load", "create", "write", "metadata", "run", "chunk_id", "unlink"}
        /\ exc \notin {"load", "create"} =>
              /\ exc = "write" => ~Writable(chunk)
              /\ exc = "metadata" => "metadata" \notin DOMAIN chunk
              /\ exc = "chunk_id" => "chunk_id" \notin DOMAIN chunk /\ Val(result) # 0
              /\ exc = "run" => ~ReturnedFor(i)
              /\ (ChunkHasKeys(chunk) /\ ReturnedFor(i)) => exc = "unlink"

\* A run ended because the command of a chunk with every key could not start.
AbortWitness ==
    /\ ipc = "aborted"
    /\ exc = "run"
    /\ ChunkHasKeys(chunk)
    /\ fs = {}

ProgressLines == SelectSeq(log, LAMBDA line : line.kind = "progress")

\* C9, as stated: between chunks, one progress line has been printed for
\* every 100 successful ingestions, the q-th reporting 100 * q successes.
ProgressCountsSuccesses ==
    ipc \in {"for", "done"} =>
        /\ Len(ProgressLines) = Successes \div 100
        /\ \A q \in 1..Len(ProgressLines) : ProgressLines[q].n = Some(100 * q)

\* C10: the command runs once per chunk, in document order, each on its own
\* fresh temporary file; a temporary file is created only when no other
\* exists, so at most one exists at any time; a run that reaches the summary
\* has run the command for every chunk and left no file.
SequentialOnce ==
    /\ Cardinality(fs) <= 1
    /\ ipc = "write" => fs = {Val(tmp)}
    /\ \A q \in 1..Len(invocations) :
          /\ invocations[q].chunk = q - 1
          /\ invocations[q].filePath = q
          /\ invocations[q].fileExists
    /\ ipc = "done" => (Len(invocations) = total /\ fs = {})

\* A finished run of at least two chunks, the first of which failed.
SequentialWitness ==
    /\ ipc = "done"
    /\ total >= 2
    /\ invocations[1].returncode # 0
    /\ created = total

=============================================================================
